---- MODULE Spec2Model ----
(***************************************************************************)
(* Model of the OSUE http-testsuite: httptest.HttpTest and the two drivers *)
(* servertest.main and clienttest.main.  The programs under test (the      *)
(* client, the server) and the network are the environment: every thing    *)
(* they can do is an input drawn from a bounded set.                       *)
(*                                                                         *)
(* Time is counted in ticks of half a second.  A process with exit time e  *)
(* exits in the half-open interval [e/2 s, (e+1)/2 s); Never does not exit.*)
(* Bytes are small numbers; a body, a file or an output is a sequence.     *)
(***************************************************************************)
EXTENDS Integers, Sequences, FiniteSets, TLC

\* ------------------------------------------------------------------ bounds
\* longest body a server sends on the wire
MaxLen == 2
\* longest output (in tokens) a command prints
MaxOut == 2
\* latest tick at which a process that exits at all exits
MaxTime == 2

\* --------------------------------------------------------------- constants
\* self._timeout = 1 second, in ticks of half a second
_timeout == 2
\* process.wait(timeout=0.5) in stop_server, in ticks
terminate_wait == 1
\* the 0.5 seconds the comments of is_returncode and does_timeout document
documented_timeout == 1
\* does_leak runs the command with timeout=self._timeout * 10
leak_factor == 10
\* first byte of a gzip stream (0x1f), which zlib.MAX_WBITS | 32 detects
GZ == 31
\* a token of output that is not valid UTF-8 (a lone 0xff)
BadByte == "<0xff>"

\* exit time of a process that does not exit on its own
Never == MaxTime + 1
\* res.length of a response without a usable Content-Length header
NoLength == 0 - 1
Absent == "<absent>"
NoFile == "<nofile>"

\* ------------------------------------------------------------ environment
DataBytes == {1, 2}
WireBytes == DataBytes \cup {GZ}

RECURSIVE SeqsUpTo(_, _)
SeqsUpTo(S, n) ==
    IF n = 0 THEN {<<>>}
    ELSE LET shorter == SeqsUpTo(S, n - 1)
         IN  shorter \cup {Append(s, x) : s \in {t \in shorter : Len(t) = n - 1}, x \in S}

\* a server's body on the wire: plain data, a gzip stream (whole or cut
\* short), or a gzip header with a corrupt stream after it
PlainBodies == SeqsUpTo(DataBytes, MaxLen)
Bodies ==
    PlainBodies
    \cup {<<GZ>> \o d : d \in SeqsUpTo(DataBytes, MaxLen - 1)}
    \cup {<<GZ>> \o d \o <<GZ>> : d \in SeqsUpTo(DataBytes, MaxLen - 2)}
ExitTimes == 0 .. Never
ExitCodes == {0, 1, 3}
Statuses == {200, 201, 400, 404, 501}

\* the files create_docroot puts under __docroot
docroot ==
    [p \in {"__docroot/index.html", "__docroot/countdown.js",
            "__docroot/cat.png", "__docroot/solarized.css"} |->
        CASE p = "__docroot/index.html"   -> <<1>>
          [] p = "__docroot/countdown.js" -> <<2>>
          [] p = "__docroot/cat.png"      -> <<2, 1>>
          [] p = "__docroot/solarized.css" -> <<1, 2>>]

\* str(n) for the sizes that occur
str(n) ==
    CASE n = 0 -> "0" [] n = 1 -> "1" [] n = 2 -> "2" [] n = 3 -> "3"
      [] n = 4 -> "4" [] n = 5 -> "5" [] OTHER -> "many"

\* os.path.getsize
getsize(p) == Len(docroot[p])

\* time.strftime("%a, %d %b %y %T %Z", time.gmtime()) at clock second s
date_text(s) ==
    IF s = 0 THEN "Tue, 03 Nov 20 10:00:00 GMT" ELSE "Tue, 03 Nov 20 10:00:01 GMT"

\* ----------------------------------------------------------------- scripts
\* One step of a driver: the operation and its arguments (unused ones keep
\* the defaults of the Python signatures).
Step(op) ==
    [op |-> op, command |-> "", code |-> 0, path |-> "", url |-> "", name |-> "",
     value |-> "", method |-> "GET", gzip_header |-> FALSE, status |-> 0,
     first |-> "", expected_output |-> <<>>]

is_returncode_step(command, code) ==
    [Step("is_returncode") EXCEPT !.command = command, !.code = code]
does_timeout_step(command) ==
    [Step("does_timeout") EXCEPT !.command = command]
does_leak_step(command) ==
    [Step("does_leak") EXCEPT !.command = command]
does_print_step(command, expected_output) ==
    [Step("does_print") EXCEPT !.command = command, !.expected_output = expected_output]
creates_file_step(command, path) ==
    [Step("creates_file") EXCEPT !.command = command, !.path = path]
compare_output_step(command, path, url) ==
    [Step("compare_output") EXCEPT !.command = command, !.path = path, !.url = url]
in_response_header_step(url, name, value, method, gz) ==
    [Step("in_response_header") EXCEPT !.url = url, !.name = name, !.value = value,
                                       !.method = method, !.gzip_header = gz]
notin_response_header_step(url, name, value) ==
    [Step("notin_response_header") EXCEPT !.url = url, !.name = name, !.value = value]
compare_response_body_step(url, path, gz) ==
    [Step("compare_response_body") EXCEPT !.url = url, !.path = path, !.gzip_header = gz]
verify_content_length_step(url, gz) ==
    [Step("verify_content_length") EXCEPT !.url = url, !.gzip_header = gz]
is_statuscode_step(url, status, method, gz) ==
    [Step("is_statuscode") EXCEPT !.url = url, !.status = status, !.method = method,
                                  !.gzip_header = gz]
send_bad_request_step(first) ==
    [Step("send_bad_request") EXCEPT !.first = first]

\* "404 Not Found" as the tokens a command's output is made of
NotFoundPhrase == <<"404", " Not Found">>

\* servertest.main, in order
servertest_main ==
    << is_returncode_step("./server", 1),
       is_returncode_step("./server -p __docroot/", 1),
       is_returncode_step("./server -p 1331 -p 1332 __docroot/", 1),
       is_returncode_step("./server -p 12 __docroot/index.html", 1),
       does_timeout_step("./server -p 1334 __docroot"),
       does_timeout_step("./server -p 1335 -i servertest.py ./__docroot/"),
       Step("start_server"),
       in_response_header_step("http://localhost:1337/", "Connection", "close", "GET", FALSE),
       in_response_header_step("http://localhost:1337/", "Content-Length",
                               str(getsize("__docroot/index.html")), "GET", FALSE),
       in_response_header_step("http://localhost:1337/", "Date", date_text(0), "GET", FALSE),
       in_response_header_step("http://localhost:1337/", "Content-Type", "text/html", "GET", FALSE),
       in_response_header_step("http://localhost:1337/countdown.js", "Content-Type",
                               "application/javascript", "GET", FALSE),
       in_response_header_step("http://localhost:1337/solarized.css", "Content-Type", "text/css", "GET", FALSE),
       in_response_header_step("http://localhost:1337/", "Content-Encoding", "gzip", "GET", TRUE),
       notin_response_header_step("http://localhost:1337/", "Content-Encoding", "gzip"),
       in_response_header_step("http://localhost:1337/doesnotexist", "Connection", "close", "GET", FALSE),
       in_response_header_step("http://localhost:1337/", "Connection", "close", "POST", FALSE),
       compare_response_body_step("http://localhost:1337/", "__docroot/index.html", FALSE),
       compare_response_body_step("http://localhost:1337/index.html", "__docroot/index.html", FALSE),
       compare_response_body_step("http://localhost:1337/countdown.js", "__docroot/countdown.js", FALSE),
       compare_response_body_step("http://localhost:1337/cat.png", "__docroot/cat.png", FALSE),
       compare_response_body_step("http://localhost:1337/solarized.css", "__docroot/solarized.css", FALSE),
       compare_response_body_step("http://localhost:1337/", "__docroot/index.html", TRUE),
       compare_response_body_step("http://localhost:1337/index.html", "__docroot/index.html", TRUE),
       compare_response_body_step("http://localhost:1337/countdown.js", "__docroot/countdown.js", TRUE),
       compare_response_body_step("http://localhost:1337/cat.png", "__docroot/cat.png", TRUE),
       compare_response_body_step("http://localhost:1337/solarized.css", "__docroot/solarized.css", TRUE),
       verify_content_length_step("http://localhost:1337/", FALSE),
       verify_content_length_step("http://localhost:1337/countdown.js", FALSE),
       verify_content_length_step("http://localhost:1337/cat.png", FALSE),
       verify_content_length_step("http://localhost:1337/solarized.css", FALSE),
       verify_content_length_step("http://localhost:1337/", TRUE),
       verify_content_length_step("http://localhost:1337/countdown.js", TRUE),
       verify_content_length_step("http://localhost:1337/cat.png", TRUE),
       verify_content_length_step("http://localhost:1337/solarized.css", TRUE),
       is_statuscode_step("http://localhost:1337/", 200, "GET", FALSE),
       is_statuscode_step("http://localhost:1337/index.html", 200, "GET", FALSE),
       is_statuscode_step("http://localhost:1337/countdown.js", 200, "GET", FALSE),
       is_statuscode_step("http://localhost:1337/cat.png", 200, "GET", FALSE),
       is_statuscode_step("http://localhost:1337/solarized.css", 200, "GET", FALSE),
       is_statuscode_step("http://localhost:1337/", 200, "GET", TRUE),
       is_statuscode_step("http://localhost:1337/index.html", 200, "GET", TRUE),
       is_statuscode_step("http://localhost:1337/countdown.js", 200, "GET", TRUE),
       is_statuscode_step("http://localhost:1337/cat.png", 200, "GET", TRUE),
       is_statuscode_step("http://localhost:1337/solarized.css", 200, "GET", TRUE),
       is_statuscode_step("http://localhost:1337/doesnotexist", 404, "GET", FALSE),
       is_statuscode_step("http://localhost:1337/doesnotexist", 404, "GET", TRUE),
       is_statuscode_step("http://localhost:1337/index.html", 501, "HEAD", FALSE),
       is_statuscode_step("http://localhost:1337/index.html", 501, "HEAD", TRUE),
       is_statuscode_step("http://localhost:1337/index.html", 501, "POST", FALSE),
       is_statuscode_step("http://localhost:1337/index.html", 501, "PUT", FALSE),
       is_statuscode_step("http://localhost:1337/index.html", 501, "DELETE", FALSE),
       is_statuscode_step("http://localhost:1337/index.html", 501, "CONNECT", FALSE),
       is_statuscode_step("http://localhost:1337/index.html", 501, "OPTIONS", FALSE),
       is_statuscode_step("http://localhost:1337/index.html", 501, "TRACE", FALSE),
       is_statuscode_step("http://localhost:1337/index.html", 501, "PATCH", FALSE),
       send_bad_request_step("GET / HTTP/1.0"),
       send_bad_request_step("GET / HTTP/1.3"),
       send_bad_request_step("GET HTTP/1.1"),
       send_bad_request_step("GET / HTTP/1.1 supersecrethiddenfieldthatshouldnotbeaccepted"),
       Step("stop_server"),
       Step("print_result") >>

\* clienttest.main, in order (base_url and port substituted)
clienttest_main ==
    << is_returncode_step("./client -p 80 http://pan.vmars.tuwien.ac.at/osue/", 0),
       is_returncode_step("./client -p 80 http://pan.vmars.tuwien.ac.at/osue/countdown.js", 0),
       is_returncode_step("./client -p 80 http://pan.vmars.tuwien.ac.at/osue/cat.png", 0),
       is_returncode_step("./client http://neverssl.com", 0),
       is_returncode_step("./client http://www.nonhttps.com/", 0),
       is_returncode_step("./client -p 80 http://pan.vmars.tuwien.ac.at/osue/", 0),
       is_returncode_step("./client -p 80 localhost/", 1),
       is_returncode_step("./client -p http://pan.vmars.tuwien.ac.at/osue/", 1),
       is_returncode_step("./client -o http://pan.vmars.tuwien.ac.at/osue/", 1),
       is_returncode_step("./client -d http://pan.vmars.tuwien.ac.at/osue/", 1),
       is_returncode_step("./client -p 80 http://pan.vmars.tuwien.ac.at/osue/does-not-exist", 3),
       does_print_step("./client -p 80 http://pan.vmars.tuwien.ac.at/osue/does-not-exist", NotFoundPhrase),
       is_returncode_step("./client -p 80 -d __tmp -o __tmp/index.html http://pan.vmars.tuwien.ac.at/osue/", 1),
       is_returncode_step("./client -p 80 -d __tmp -d __tmp/ http://pan.vmars.tuwien.ac.at/osue/", 1),
       is_returncode_step("./client -p 80 -o __tmp/index.html -o __tmp/index.html http://pan.vmars.tuwien.ac.at/osue/", 1),
       creates_file_step("./client -p 80 -o __tmp/index.html http://pan.vmars.tuwien.ac.at/osue/", "__tmp/index.html"),
       creates_file_step("./client -p 80 -o __tmp/dog.txt http://pan.vmars.tuwien.ac.at/osue/", "__tmp/dog.txt"),
       creates_file_step("./client -p 80 -o __tmp/dog.txt http://pan.vmars.tuwien.ac.at/osue/countdown.js", "__tmp/dog.txt"),
       creates_file_step("./client -p 80 -d __tmp http://pan.vmars.tuwien.ac.at/osue/", "__tmp/index.html"),
       creates_file_step("./client -p 80 -d __tmp/ http://pan.vmars.tuwien.ac.at/osue/", "__tmp/index.html"),
       creates_file_step("./client -p 80 -d __tmp/ http://pan.vmars.tuwien.ac.at/osue/countdown.js", "__tmp/countdown.js"),
       creates_file_step("./client -p 80 -d __tmp/ http://pan.vmars.tuwien.ac.at/osue/cat.png", "__tmp/cat.png"),
       compare_output_step("./client -p 80 -o __tmp/index.html http://pan.vmars.tuwien.ac.at/osue/",
                           "__tmp/index.html", "http://pan.vmars.tuwien.ac.at:80/osue/"),
       compare_output_step("./client -p 80 -o __tmp/dog.txt http://pan.vmars.tuwien.ac.at/osue/",
                           "__tmp/dog.txt", "http://pan.vmars.tuwien.ac.at:80/osue/"),
       compare_output_step("./client -p 80 -o __tmp/dog.txt http://pan.vmars.tuwien.ac.at/osue/countdown.js",
                           "__tmp/dog.txt", "http://pan.vmars.tuwien.ac.at:80/osue/countdown.js"),
       compare_output_step("./client -p 80 -d __tmp http://pan.vmars.tuwien.ac.at/osue/",
                           "__tmp/index.html", "http://pan.vmars.tuwien.ac.at:80/osue/"),
       compare_output_step("./client -p 80 -d __tmp/ http://pan.vmars.tuwien.ac.at/osue/countdown.js",
                           "__tmp/countdown.js", "http://pan.vmars.tuwien.ac.at:80/osue/countdown.js"),
       compare_output_step("./client -p 80 -d __tmp/ http://pan.vmars.tuwien.ac.at/osue/cat.png",
                           "__tmp/cat.png", "http://pan.vmars.tuwien.ac.at:80/osue/cat.png"),
       does_leak_step("./client -p 80 http://pan.vmars.tuwien.ac.at/osue/"),
       does_leak_step("./client -p 80 http://pan.vmars.tuwien.ac.at/osue/countdown.js"),
       does_leak_step("./client -p 80 http://pan.vmars.tuwien.ac.at/osue/cat.png"),
       does_leak_step("./client http://neverssl.com"),
       does_leak_step("./client http://www.nonhttps.com/"),
       does_leak_step("./client -p 80 http://pan.vmars.tuwien.ac.at/osue/"),
       does_leak_step("./client -p 80 localhost/"),
       does_leak_step("./client -p http://pan.vmars.tuwien.ac.at/osue/"),
       does_leak_step("./client -o http://pan.vmars.tuwien.ac.at/osue/"),
       does_leak_step("./client -d http://pan.vmars.tuwien.ac.at/osue/"),
       does_leak_step("./client -p 80 http://pan.vmars.tuwien.ac.at/osue/does-not-exist"),
       does_leak_step("./client -p 80 -o __tmp/index.html http://pan.vmars.tuwien.ac.at/osue/"),
       does_leak_step("./client -p 80 -o __tmp/dog.txt http://pan.vmars.tuwien.ac.at/osue/"),
       does_leak_step("./client -p 80 -o __tmp/dog.txt http://pan.vmars.tuwien.ac.at/osue/countdown.js"),
       does_leak_step("./client -p 80 -d __tmp http://pan.vmars.tuwien.ac.at/osue/"),
       does_leak_step("./client -p 80 -d __tmp/ http://pan.vmars.tuwien.ac.at/osue/countdown.js"),
       does_leak_step("./client -p 80 -d __tmp/ http://pan.vmars.tuwien.ac.at/osue/cat.png"),
       Step("print_result") >>

script(s) == IF s = "servertest" THEN servertest_main ELSE clienttest_main

\* ------------------------------------------------ the environment's inputs
\* What one operation meets: a process run (exit time, exit code, output,
\* the file it wrote), a server's answer (conn: how the connection went;
\* status; hval: the value of the header the operation inspects; ce:
\* Content-Encoding; cl: Content-Length; sent: the body bytes on the wire)
\* the markers in the valgrind log, and tick: the seconds the clock advanced
\* between the harness's time.gmtime() and the server building its response.
DefaultEnv ==
    [exit |-> 0, code |-> 0, out |-> <<>>, wrote |-> NoFile, data |-> <<>>,
     conn |-> "ok", status |-> 200, hval |-> Absent, ce |-> Absent,
     cl |-> NoLength, sent |-> <<>>, log |-> <<>>, tick |-> 0]

HeapMarker == "All heap blocks were freed -- no leaks are possibl"
ErrorMarker == "ERROR SUMMARY: 0 errors from 0 contexts"
Logs == {<<>>, <<HeapMarker>>, <<ErrorMarker>>, <<HeapMarker, ErrorMarker>>}

NoAnswer == {"refused", "closed", "silent"}
OutTokens == {"404", " Not Found", "x", BadByte}
Outputs == SeqsUpTo(OutTokens, MaxOut)
FileData == {<<1>>, <<2>>}

\* ---------------------------------------------------- the Python libraries
\* Outcomes of a method: the results it recorded, in order, how it ended,
\* what it returned and, when it raised, the exception.
Passed == [results |-> <<"pass">>, outcome |-> "returned", ret |-> "True", exc |-> ""]
Failed == [results |-> <<"fail">>, outcome |-> "returned", ret |-> "False", exc |-> ""]
Raised(exc) == [results |-> <<>>, outcome |-> "raised", ret |-> "None", exc |-> exc]
Hung == [results |-> <<>>, outcome |-> "hung", ret |-> "None", exc |-> ""]

\* urllib.request.urlopen(req): how it delivers the server's answer
urlopen(r) ==
    CASE r.conn = "refused" -> "URLError"
      [] r.conn = "closed"  -> "RemoteDisconnected"
      [] r.conn = "silent"  -> "hang"
      [] r.conn = "ok" /\ r.status \in 200 .. 299 -> "response"
      [] OTHER -> "HTTPError"

\* http.client.HTTPResponse.read(): the body, or IncompleteRead with the
\* bytes that arrived before the server closed the connection
read(r, method) ==
    CASE method = "HEAD"     -> [incomplete |-> FALSE, body |-> <<>>]
      [] r.cl = NoLength     -> [incomplete |-> FALSE, body |-> r.sent]
      [] Len(r.sent) >= r.cl -> [incomplete |-> FALSE, body |-> SubSeq(r.sent, 1, r.cl)]
      [] OTHER               -> [incomplete |-> TRUE, body |-> r.sent]

\* "gzip" in value, on the values that occur
contains_gzip(value) == value \in {"gzip", "x-gzip"}

\* the compressed form of a data byte
Flip(b) == IF b = 1 THEN 2 ELSE 1
\* what a compressing server sends for a body
gzip(body) == <<GZ>> \o [i \in 1 .. Len(body) |-> Flip(body[i])]

\* zlib.decompressobj(zlib.MAX_WBITS | 32).decompress(raw): no input gives no
\* output, input without the gzip header or with a corrupt stream raises
\* zlib.error, a truncated stream gives the output so far
decompress(raw) ==
    CASE raw = <<>> -> [error |-> FALSE, body |-> <<>>]
      [] raw[1] # GZ \/ (\E i \in 2 .. Len(raw) : raw[i] = GZ)
                    -> [error |-> TRUE, body |-> <<>>]
      [] OTHER      -> [error |-> FALSE,
                        body |-> [i \in 1 .. Len(raw) - 1 |-> Flip(raw[i + 1])]]

\* expected_output in output
Contains(output, expected) ==
    \E i \in 0 .. Len(output) - Len(expected) :
        \A j \in 1 .. Len(expected) : output[i + j] = expected[j]

\* cp.stdout.decode(): UnicodeDecodeError on bytes that are not UTF-8
decodes(output) == \A i \in 1 .. Len(output) : output[i] # BadByte

\* subprocess.run(..., timeout=t) raises TimeoutExpired
TimeoutExpired(p, t) == p.exit = Never \/ p.exit >= t

\* ------------------------------------------------------- httptest.HttpTest
\* Each method as the outcome it has on the input it meets.

\* is_returncode with the comparison reduced to "exited with an error"
is_returncode_any_error(p, code) ==
    IF TimeoutExpired(p, _timeout) THEN Failed
    ELSE IF (p.code = 0) # (code = 0) THEN Failed
    ELSE Passed

\* is_returncode(command, code)
is_returncode(p, code) ==
    IF TimeoutExpired(p, _timeout) THEN Failed
    ELSE IF ~(p.code = code) THEN Failed
    ELSE Passed

\* does_timeout(command)
does_timeout(p) ==
    IF TimeoutExpired(p, _timeout) THEN Passed ELSE Failed

\* the log check with "and" for "or": one marker is enough
log_clean_either(output) ==
    ~ (~Contains(output, <<HeapMarker>>) /\ ~Contains(output, <<ErrorMarker>>))

\* the two markers does_leak and stop_server look for in the valgrind log
log_clean(output) ==
    ~ (~Contains(output, <<HeapMarker>>) \/ ~Contains(output, <<ErrorMarker>>))

\* does_leak(command)
does_leak(p) ==
    IF TimeoutExpired(p, _timeout * leak_factor) THEN Failed
    ELSE IF ~log_clean(p.log) THEN Failed
    ELSE Passed

\* stop_server(process): p.exit is the exit time after SIGTERM
stop_server(p, log_exists) ==
    LET terminated == ~TimeoutExpired(p, terminate_wait)
        first == IF terminated THEN "pass" ELSE "fail"
        clean == log_clean(p.log)
        second == IF clean THEN "pass" ELSE "fail"
        success == terminated /\ clean
    IN  IF ~log_exists
        THEN [results |-> <<first>>, outcome |-> "raised", ret |-> "None",
              exc |-> "FileNotFoundError"]
        ELSE IF p.exit = Never
        THEN [results |-> <<first, second>>, outcome |-> "hung", ret |-> "None", exc |-> ""]
        ELSE [results |-> <<first, second>>, outcome |-> "returned",
              ret |-> IF success THEN "True" ELSE "False", exc |-> ""]

\* creates_file(command, path), after _create_dir and the run; files is what
\* __tmp holds then
creates_file(p, path, files) ==
    IF TimeoutExpired(p, _timeout) THEN Failed
    ELSE IF p.code # 0 THEN Failed
    ELSE IF path \notin DOMAIN files THEN Failed
    ELSE Passed

\* compare_output(command, path, url)
compare_output(p, path, files) ==
    IF TimeoutExpired(p, _timeout) THEN Failed
    ELSE IF p.code # 0 THEN Failed
    ELSE IF path \notin DOMAIN files THEN Failed
    ELSE LET u == urlopen(p)
             res == read(p, "GET")
         IN  IF u = "hang" THEN Hung
             ELSE IF u # "response" THEN Raised(u)
             ELSE IF res.incomplete THEN Raised("IncompleteRead")
             ELSE IF res.body # files[path] THEN Failed
             ELSE Passed

\* in_response_header without its "except HTTPError" clause: the headers of
\* an error response are never looked at
in_response_header_no_httperror(r, value, method) ==
    LET u == urlopen(r)
    IN  IF u = "hang" THEN Hung
        ELSE IF u = "RemoteDisconnected" THEN Raised(u)
        ELSE IF u \in {"URLError", "HTTPError"} THEN Failed
        ELSE IF r.hval = Absent \/ value # r.hval THEN Failed
        ELSE Passed

\* in_response_header(url, name, value, method, headers)
in_response_header(r, value, method) ==
    LET u == urlopen(r)
    IN  IF u = "hang" THEN Hung
        ELSE IF u = "RemoteDisconnected" THEN Raised(u)
        ELSE IF u = "URLError" THEN Failed
        ELSE IF r.hval = Absent \/ value # r.hval THEN Failed
        ELSE Passed

\* notin_response_header(url, name, value, method)
notin_response_header(r, value) ==
    LET u == urlopen(r)
    IN  IF u = "hang" THEN Hung
        ELSE IF u = "RemoteDisconnected" THEN Raised(u)
        ELSE IF u = "URLError" THEN Failed
        ELSE IF r.hval # Absent /\ value = r.hval THEN Failed
        ELSE Passed

\* verify_content_length(url, headers): after IncompleteRead content_size is
\* unbound, and the comparison that reads it raises UnboundLocalError
verify_content_length(r) ==
    LET u == urlopen(r)
        res == read(r, "GET")
    IN  IF u = "hang" THEN Hung
        ELSE IF u = "RemoteDisconnected" THEN Raised(u)
        ELSE IF u \in {"URLError", "HTTPError"} THEN Failed
        ELSE IF r.cl = NoLength THEN Failed
        ELSE IF res.incomplete THEN Raised("UnboundLocalError")
        ELSE IF r.cl # Len(res.body) THEN Failed
        ELSE Passed

\* compare_response_body(url, path, headers)
compare_response_body(r, path) ==
    LET u == urlopen(r)
        raw_body == read(r, "GET").body
        zipped == r.ce # Absent /\ contains_gzip(r.ce)
        unzipped == decompress(raw_body)
        body == IF zipped THEN unzipped.body ELSE raw_body
        content == docroot[path]
    IN  IF u = "hang" THEN Hung
        ELSE IF u = "RemoteDisconnected" THEN Raised(u)
        ELSE IF u \in {"URLError", "HTTPError"} THEN Failed
        ELSE IF zipped /\ unzipped.error THEN Raised("zlib.error")
        ELSE IF body # content THEN Failed
        ELSE Passed

\* is_statuscode without its "except HTTPError" clause: the error falls
\* into "except URLError"
is_statuscode_no_httperror(r, status, method) ==
    LET u == urlopen(r)
        code == r.status
    IN  IF u = "hang" THEN Hung
        ELSE IF u = "RemoteDisconnected" THEN Raised(u)
        ELSE IF u \in {"URLError", "HTTPError"} THEN Failed
        ELSE IF status # code THEN Failed
        ELSE Passed

\* is_statuscode that compares the status only of a successful response
is_statuscode_error_passes(r, status, method) ==
    LET u == urlopen(r)
        code == r.status
    IN  IF u = "hang" THEN Hung
        ELSE IF u = "RemoteDisconnected" THEN Raised(u)
        ELSE IF u = "URLError" THEN Failed
        ELSE IF u = "response" /\ status # code THEN Failed
        ELSE Passed

\* is_statuscode(url, status, method, headers)
is_statuscode(r, status, method) ==
    LET u == urlopen(r)
        code == r.status
    IN  IF u = "hang" THEN Hung
        ELSE IF u = "RemoteDisconnected" THEN Raised(u)
        ELSE IF u = "URLError" THEN Failed
        ELSE IF status # code THEN Failed
        ELSE Passed

\* does_print with "in" for "not in"
does_print_inverted(p, expected_output) ==
    IF TimeoutExpired(p, _timeout) THEN Failed
    ELSE IF ~decodes(p.out) THEN Raised("UnicodeDecodeError")
    ELSE IF Contains(p.out, expected_output) THEN Failed
    ELSE Passed

\* does_print(command, expected_output)
does_print(p, expected_output) ==
    IF TimeoutExpired(p, _timeout) THEN Failed
    ELSE IF ~decodes(p.out) THEN Raised("UnicodeDecodeError")
    ELSE IF ~Contains(p.out, expected_output) THEN Failed
    ELSE Passed

\* ---------------------------------------------------------------- servertest
\* send_bad_request(host, first_line): the response, or how getting it ended
send_bad_request(r) ==
    CASE r.conn = "refused" -> [outcome |-> "raised", exc |-> "ConnectionRefusedError",
                                status |-> 0]
      [] r.conn = "closed"  -> [outcome |-> "raised", exc |-> "RemoteDisconnected",
                                status |-> 0]
      [] r.conn = "silent"  -> [outcome |-> "hung", exc |-> "", status |-> 0]
      [] OTHER              -> [outcome |-> "returned", exc |-> "", status |-> r.status]

\* the check with "!=" for "=="
bad_request_check_inverted(res) ==
    IF res.outcome = "hung" THEN Hung
    ELSE IF res.outcome = "raised" THEN Raised(res.exc)
    ELSE IF res.status # 400 THEN [Passed EXCEPT !.ret = "None"]
    ELSE [Failed EXCEPT !.ret = "None"]

\* the check with ">=" for "==": any error status passes
bad_request_check_any_error(res) ==
    IF res.outcome = "hung" THEN Hung
    ELSE IF res.outcome = "raised" THEN Raised(res.exc)
    ELSE IF res.status >= 400 THEN [Passed EXCEPT !.ret = "None"]
    ELSE [Failed EXCEPT !.ret = "None"]

\* main's check of a bad request: res.status == 400
bad_request_check(res) ==
    IF res.outcome = "hung" THEN Hung
    ELSE IF res.outcome = "raised" THEN Raised(res.exc)
    ELSE IF res.status = 400 THEN [Passed EXCEPT !.ret = "None"]
    ELSE [Failed EXCEPT !.ret = "None"]

\* --------------------------------------------------------------------- state
VARIABLES
    suite,          \* the driver that runs: "servertest" or "clienttest"
    pc,             \* the step of the driver's main that comes next
    mode,           \* "running", "except" (servertest's handler is about to
                    \* stop the server and re-raise), "finished", "crashed"
                    \* (an exception left main), "hung" (a call never returns)
    _tests,         \* HttpTest._tests
    _tests_failed,  \* HttpTest._tests_failed
    tmp,            \* the files under __tmp: path -> content
    process,        \* the server start_server started: "none", "running", "exited"
    stops,          \* how many times stop_server has been called
    last            \* the operation that ran last, the input it met, its outcome,
                    \* and whether the file it looks at existed before it

vars == <<suite, pc, mode, _tests, _tests_failed, tmp, process, stops, last>>

\* test_passed and test_failed, on the pair of counters
test_passed(c) == [tests |-> c.tests + 1, failed |-> c.failed]
test_failed(c) == [tests |-> c.tests + 1, failed |-> c.failed + 1]

RECURSIVE record(_, _)
record(c, results) ==
    IF results = <<>> THEN c
    ELSE record(IF Head(results) = "pass" THEN test_passed(c) ELSE test_failed(c),
                Tail(results))

ValgrindLog == "__tmp/valgrind-out.txt"
EmptyDir == [f \in {} |-> <<>>]

\* _create_dir() without the rmtree: __tmp keeps what it holds
_create_dir_keeps(files) == files

\* _create_dir(): __tmp removed and made again
_create_dir(files) == EmptyDir

\* a file written, a file removed
Written(files, f, content) ==
    [g \in DOMAIN files \cup {f} |-> IF g = f THEN content ELSE files[g]]
Removed(files, f) == [g \in DOMAIN files \ {f} |-> files[g]]
\* what a run of the program under test leaves under __tmp
AfterRun(files, p) == IF p.wrote = NoFile THEN files ELSE Written(files, p.wrote, p.data)

step == script(suite)[pc]

\* servertest.main without its try block: an exception leaves main at once
in_try_none == FALSE

\* the try block of servertest.main holds every step between start_server
\* and the stop_server after it
in_try ==
    /\ suite = "servertest"
    /\ mode = "running"
    /\ step.op \notin {"is_returncode", "does_timeout", "start_server",
                       "stop_server", "print_result"}

\* the counters, the position and the record of the operation, after an
\* operation with outcome o on input env
Account(op, env, o) ==
    LET c == record([tests |-> _tests, failed |-> _tests_failed], o.results)
    IN  /\ _tests' = c.tests
        /\ _tests_failed' = c.failed
        /\ last' = [op |-> op, step |-> IF mode = "except" THEN Step(op) ELSE step,
                    env |-> env, results |-> o.results, outcome |-> o.outcome,
                    ret |-> o.ret, exc |-> o.exc, handler |-> mode = "except",
                    existed |-> step.path \in DOMAIN tmp]
        /\ mode' = CASE o.outcome = "hung" -> "hung"
                     [] o.outcome = "raised" -> IF in_try THEN "except" ELSE "crashed"
                     [] mode = "except" -> "crashed"
                     [] pc = Len(script(suite)) -> "finished"
                     [] OTHER -> "running"
        /\ pc' = IF o.outcome = "returned" /\ mode = "running" /\ pc < Len(script(suite))
                 THEN pc + 1 ELSE pc

At(op) == mode = "running" /\ step.op = op

Init ==
    /\ suite \in {"servertest", "clienttest"}
    /\ pc = 1
    /\ mode = "running"
    /\ _tests = 0
    /\ _tests_failed = 0
    /\ tmp = EmptyDir
    /\ process = "none"
    /\ stops = 0
    /\ last = [op |-> "__init__", step |-> Step("__init__"), env |-> DefaultEnv,
               results |-> <<>>, outcome |-> "returned", ret |-> "None", exc |-> "",
               handler |-> FALSE, existed |-> FALSE]

\* ------------------------------------------------------- bounded input sets
\* the file a run of the program under test may write: none, the path the
\* step looks at, or the client's default __tmp/index.html
Writes(st) ==
    {NoFile} \cup ({st.path} \ {""})
             \cup (IF suite = "clienttest" THEN {"__tmp/index.html"} ELSE {})

\* runs of a command under subprocess.run(timeout=t): a process killed at
\* the timeout has no exit code of its own
ProcEnvs(t, exits, writes, datas) ==
    {[DefaultEnv EXCEPT !.exit = e, !.code = IF e = Never \/ e >= t THEN 0 ELSE c,
                        !.wrote = w, !.data = IF w = NoFile THEN <<>> ELSE d] :
        e \in exits, c \in ExitCodes, w \in writes, d \in datas}

NoAnswerEnvs == {[DefaultEnv EXCEPT !.conn = c] : c \in NoAnswer}

\* answers distinguished by status, complete or cut short
StatusEnvs ==
    NoAnswerEnvs \cup
    {[DefaultEnv EXCEPT !.status = s, !.cl = l] : s \in Statuses, l \in {NoLength, 1}}

\* the value a server may give the header a step inspects
OtherValue(name) ==
    CASE name = "Connection" -> "keep-alive"
      [] name = "Content-Length" -> str(getsize("__docroot/index.html") + 1)
      [] name = "Date" -> date_text(1)
      [] name = "Content-Type" -> "application/octet-stream"
      [] OTHER -> "identity"

HeaderEnvs(st) ==
    NoAnswerEnvs \cup
    {[DefaultEnv EXCEPT !.status = s, !.hval = v, !.cl = l] :
        s \in Statuses, v \in {Absent, st.value, OtherValue(st.name)}, l \in {NoLength, 1}}

\* answers to the request of the Date check: the harness took its timestamp
\* at second 0; the server builds the response in the same second or after
\* the clock has ticked, and stamps it with the time of either second
Ticks == {0, 1}
DateEnvs(st) ==
    NoAnswerEnvs \cup
    {[DefaultEnv EXCEPT !.status = s, !.hval = v, !.cl = l, !.tick = t] :
        s \in Statuses, v \in {Absent} \cup {date_text(c) : c \in Ticks},
        l \in {NoLength, 1}, t \in Ticks}

\* answers to the request of notin_response_header, which declares no
\* Accept-Encoding: gzip: the index page plain or compressed, under the
\* Content-Encoding values a server may declare for it
EncodingEnvs(st) ==
    NoAnswerEnvs \cup
    {[DefaultEnv EXCEPT !.status = s, !.hval = v, !.ce = v, !.sent = b] :
        s \in Statuses,
        v \in {Absent, st.value, "x-gzip", OtherValue(st.name)},
        b \in {docroot["__docroot/index.html"], gzip(docroot["__docroot/index.html"])}}

\* answers with a body
BodyEnvs(bodies, framings) ==
    NoAnswerEnvs \cup
    {[DefaultEnv EXCEPT !.status = s] : s \in Statuses \ {200}} \cup
    {[DefaultEnv EXCEPT !.ce = x[2].ce, !.sent = x[1],
                        !.cl = IF x[2].cl = "none" THEN NoLength
                               ELSE IF x[2].cl = "less" THEN Len(x[1]) - 1
                               ELSE IF x[2].cl = "more" THEN Len(x[1]) + 1
                               ELSE Len(x[1])] :
        x \in {y \in bodies \X framings : y[2].cl = "less" => y[1] # <<>>}}

\* how a server frames the body verify_content_length measures: with no
\* Content-Length, the right one, one that declares a byte less than it
\* sends, one that declares a byte more
LengthFramings == [ce : {Absent}, cl : {"none", "same", "less", "more"}]
\* how a server frames the body compare_response_body reads: encoded or not,
\* whole or closed a byte early
BodyFramings ==
    [ce : {Absent, "gzip"}, cl : {"none", "more"}]
    \cup [ce : {"x-gzip", "identity"}, cl : {"none"}]

\* the reference server's answers to compare_output's fetch
ReferenceEnvs(p) ==
    {[p EXCEPT !.conn = c] : c \in NoAnswer} \cup
    {[p EXCEPT !.status = 404]} \cup
    UNION {{[p EXCEPT !.sent = b, !.cl = l] : l \in {NoLength, Len(b) + 1}} :
            b \in FileData}

\* --------------------------------------------------------------- operations
IsReturncode ==
    /\ At("is_returncode")
    /\ \E p \in ProcEnvs(_timeout, ExitTimes, Writes(step), {<<1>>}) :
        /\ Account("is_returncode", p, is_returncode(p, step.code))
        /\ tmp' = AfterRun(tmp, p)
    /\ UNCHANGED <<suite, process, stops>>

DoesTimeout ==
    /\ At("does_timeout")
    /\ \E p \in ProcEnvs(_timeout, ExitTimes, Writes(step), {<<1>>}) :
        /\ Account("does_timeout", p, does_timeout(p))
        /\ tmp' = AfterRun(tmp, p)
    /\ UNCHANGED <<suite, process, stops>>

DoesPrint ==
    /\ At("does_print")
    /\ \E q \in ProcEnvs(_timeout, ExitTimes, {NoFile}, {<<1>>}), o \in Outputs :
        LET p == [q EXCEPT !.out = o]
        IN  /\ Account("does_print", p, does_print(p, step.expected_output))
            /\ tmp' = AfterRun(tmp, p)
    /\ UNCHANGED <<suite, process, stops>>

\* valgrind writes its log while the command runs; does_leak reads and
\* removes it unless the run timed out.  The timeout is beyond MaxTime: a
\* command either exits in time or never.
DoesLeak ==
    /\ At("does_leak")
    /\ \E q \in ProcEnvs(_timeout * leak_factor, {0, Never}, {NoFile}, {<<1>>}), l \in Logs :
        LET p == [q EXCEPT !.log = l]
            o == does_leak(p)
            ran == Written(AfterRun(tmp, p), ValgrindLog, l)
        IN  /\ Account("does_leak", p, o)
            /\ tmp' = IF TimeoutExpired(p, _timeout * leak_factor) THEN ran
                      ELSE Removed(ran, ValgrindLog)
    /\ UNCHANGED <<suite, process, stops>>

CreatesFile ==
    /\ At("creates_file")
    /\ \E p \in ProcEnvs(_timeout, ExitTimes, Writes(step), {<<1>>}) :
        LET files == AfterRun(_create_dir(tmp), p)
        IN  /\ Account("creates_file", p, creates_file(p, step.path, files))
            /\ tmp' = files
    /\ UNCHANGED <<suite, process, stops>>

CompareOutput ==
    /\ At("compare_output")
    /\ \E q \in ProcEnvs(_timeout, ExitTimes, Writes(step), FileData) :
        LET files == AfterRun(_create_dir(tmp), q)
            fetches == creates_file(q, step.path, files) = Passed
        IN  \E p \in IF fetches THEN ReferenceEnvs(q) ELSE {q} :
                /\ Account("compare_output", p, compare_output(p, step.path, files))
                /\ tmp' = files
    /\ UNCHANGED <<suite, process, stops>>

\* start_server(command): valgrind starts the server and opens its log
StartServer ==
    /\ At("start_server")
    /\ Account("start_server", DefaultEnv,
               [results |-> <<>>, outcome |-> "returned", ret |-> "None", exc |-> ""])
    /\ process' = "running"
    /\ tmp' = Written(tmp, ValgrindLog, <<>>)
    /\ UNCHANGED <<suite, stops>>

\* stop_server(p), at the end of main or in its exception handler
StopServer ==
    /\ At("stop_server") \/ mode = "except"
    /\ \E e \in ExitTimes, l \in Logs :
        LET p == [DefaultEnv EXCEPT !.exit = e, !.log = l]
            exists == ValgrindLog \in DOMAIN tmp
        IN  /\ Account("stop_server", p, stop_server(p, exists))
            /\ process' = IF e = Never THEN "running" ELSE "exited"
            /\ tmp' = Removed(tmp, ValgrindLog)
    /\ stops' = stops + 1
    /\ UNCHANGED suite

InResponseHeader ==
    /\ At("in_response_header")
    /\ \E r \in IF step.name = "Date" THEN DateEnvs(step) ELSE HeaderEnvs(step) :
        Account("in_response_header", r, in_response_header(r, step.value, step.method))
    /\ UNCHANGED <<suite, tmp, process, stops>>

NotinResponseHeader ==
    /\ At("notin_response_header")
    /\ \E r \in EncodingEnvs(step) :
        Account("notin_response_header", r, notin_response_header(r, step.value))
    /\ UNCHANGED <<suite, tmp, process, stops>>

VerifyContentLength ==
    /\ At("verify_content_length")
    /\ \E r \in BodyEnvs(PlainBodies, LengthFramings) :
        Account("verify_content_length", r, verify_content_length(r))
    /\ UNCHANGED <<suite, tmp, process, stops>>

CompareResponseBody ==
    /\ At("compare_response_body")
    /\ \E r \in BodyEnvs(Bodies, BodyFramings) :
        Account("compare_response_body", r, compare_response_body(r, step.path))
    /\ UNCHANGED <<suite, tmp, process, stops>>

IsStatuscode ==
    /\ At("is_statuscode")
    /\ \E r \in StatusEnvs :
        Account("is_statuscode", r, is_statuscode(r, step.status, step.method))
    /\ UNCHANGED <<suite, tmp, process, stops>>

SendBadRequest ==
    /\ At("send_bad_request")
    /\ \E r \in StatusEnvs :
        Account("send_bad_request", r, bad_request_check(send_bad_request(r)))
    /\ UNCHANGED <<suite, tmp, process, stops>>

\* print_result(): _create_dir and the statistics
PrintResult ==
    /\ At("print_result")
    /\ Account("print_result", DefaultEnv,
               [results |-> <<>>, outcome |-> "returned", ret |-> "None", exc |-> ""])
    /\ tmp' = _create_dir(tmp)
    /\ UNCHANGED <<suite, process, stops>>

Next ==
    \/ IsReturncode
    \/ DoesTimeout
    \/ DoesPrint
    \/ DoesLeak
    \/ CreatesFile
    \/ CompareOutput
    \/ StartServer
    \/ StopServer
    \/ InResponseHeader
    \/ NotinResponseHeader
    \/ VerifyContentLength
    \/ CompareResponseBody
    \/ IsStatuscode
    \/ SendBadRequest
    \/ PrintResult

Spec == Init /\ [][Next]_vars

\* ------------------------------------------------------------------- claims
\* what the last operation recorded, and whether the server answered it
RecordedPass == last.results = <<"pass">>
RecordedFail == last.results = <<"fail">>
Answered == last.env.conn = "ok"
InTime == ~TimeoutExpired(last.env, _timeout)
Ops(op) == {i \in 1 .. Len(script(suite)) : script(suite)[i].op = op}

NonGetMethods == {"HEAD", "POST", "PUT", "DELETE", "CONNECT", "OPTIONS", "TRACE", "PATCH"}

\* C1: every non-GET method is requested on /index.html with 501 expected,
\* and is_statuscode records a pass exactly when the answer's status is 501
\* and a failure for every other status.
C1_NonGetExpects501 ==
    /\ suite = "servertest" =>
        \A m \in NonGetMethods : \E i \in Ops("is_statuscode") :
            /\ servertest_main[i].method = m
            /\ servertest_main[i].status = 501
            /\ servertest_main[i].url = "http://localhost:1337/index.html"
    /\ (last.op = "is_statuscode" /\ last.step.method \in NonGetMethods /\ Answered) =>
        /\ last.step.status = 501
        /\ RecordedPass <=> last.env.status = 501
        /\ last.env.status # 501 => RecordedFail

\* C1 witness: PATCH answered with 501, delivered as an HTTPError, passes.
C1_Witness ==
    /\ last.op = "is_statuscode"
    /\ last.step.method = "PATCH"
    /\ last.env.conn = "ok"
    /\ last.env.status = 501
    /\ urlopen(last.env) = "HTTPError"
    /\ RecordedPass

\* C2, as claimed: a server that answers "GET / HTTP/1.0" with 200 is not
\* failed for it.
C2_Http10NotRequired400 ==
    (last.op = "send_bad_request" /\ last.step.first = "GET / HTTP/1.0"
        /\ Answered /\ last.env.status = 200) => ~RecordedFail

\* C2, amended: the only version the harness accepts is HTTP/1.1; the request
\* lines with HTTP/1.0 and with HTTP/1.3 pass exactly when the answer is 400.
C2_OtherVersionsNeed400 ==
    (last.op = "send_bad_request"
        /\ last.step.first \in {"GET / HTTP/1.0", "GET / HTTP/1.3"} /\ Answered) =>
        /\ RecordedPass <=> last.env.status = 400
        /\ last.env.status # 400 => RecordedFail

\* C2 witness: "GET / HTTP/1.0" answered with 200 is recorded as a failure.
C2_Witness ==
    /\ last.op = "send_bad_request"
    /\ last.step.first = "GET / HTTP/1.0"
    /\ last.env.conn = "ok"
    /\ last.env.status = 200
    /\ RecordedFail

MalformedLines ==
    {"GET / HTTP/1.3", "GET HTTP/1.1",
     "GET / HTTP/1.1 supersecrethiddenfieldthatshouldnotbeaccepted"}

\* C3: for each malformed request line a pass is recorded exactly when the
\* answer is 400 and a failure for any other status; without an answer
\* nothing is recorded and main does not go on to its next check.
C3_MalformedNeeds400 ==
    /\ suite = "servertest" =>
        \A f \in MalformedLines : \E i \in Ops("send_bad_request") :
            servertest_main[i].first = f
    /\ (last.op = "send_bad_request" /\ last.step.first \in MalformedLines) =>
        /\ Answered => (RecordedPass <=> last.env.status = 400)
        /\ (Answered /\ last.env.status # 400) => RecordedFail
        /\ ~Answered => (last.results = <<>> /\ mode \in {"except", "hung"})

\* C3 witness: the request line with a fourth token, answered with 400.
C3_Witness ==
    /\ last.op = "send_bad_request"
    /\ last.step.first = "GET / HTTP/1.1 supersecrethiddenfieldthatshouldnotbeaccepted"
    /\ last.env.conn = "ok"
    /\ last.env.status = 400
    /\ RecordedPass

\* the body compare_response_body received, decoded as its headers declare;
\* undecodable is a body that is no gzip stream although declared one
ReceivedBody == read(last.env, "GET").body
Undecodable == contains_gzip(last.env.ce) /\ decompress(ReceivedBody).error
DecodedBody ==
    IF contains_gzip(last.env.ce) THEN decompress(ReceivedBody).body ELSE ReceivedBody
BodyMatches ==
    /\ last.env.status \in 200 .. 299
    /\ ~Undecodable
    /\ DecodedBody = docroot[last.step.path]

\* C4: compare_response_body records a pass exactly when the response is
\* successful and its decoded body equals the file, and a failure otherwise.
C4_BodyEqualsFile ==
    (last.op = "compare_response_body" /\ Answered) =>
        /\ RecordedPass <=> BodyMatches
        /\ ~BodyMatches => RecordedFail

\* C5: verify_content_length passes only if Content-Length is there and
\* equals the number of bytes sent, and fails whenever the two differ.
C5_LengthEqualsBytesSent ==
    (last.op = "verify_content_length" /\ Answered /\ last.env.status \in 200 .. 299) =>
        /\ RecordedPass => (last.env.cl # NoLength /\ last.env.cl = Len(last.env.sent))
        /\ (last.env.cl # NoLength /\ last.env.cl # Len(last.env.sent)) => RecordedFail

\* C6: a missing path is requested with GET and 404 expected, with and
\* without the gzip header; the check passes exactly when the status is 404
\* and fails for 200, 400 and 501.
C6_MissingExpects404 ==
    /\ suite = "servertest" =>
        \A gz \in BOOLEAN : \E i \in Ops("is_statuscode") :
            /\ servertest_main[i].url = "http://localhost:1337/doesnotexist"
            /\ servertest_main[i].gzip_header = gz
    /\ (last.op = "is_statuscode" /\ Answered
            /\ last.step.url = "http://localhost:1337/doesnotexist") =>
        /\ last.step.status = 404 /\ last.step.method = "GET"
        /\ RecordedPass <=> last.env.status = 404
        /\ last.env.status \in {200, 400, 501} => RecordedFail

\* C6 witness: the request with the gzip header, answered 404, passes.
C6_Witness ==
    /\ last.op = "is_statuscode"
    /\ last.step.url = "http://localhost:1337/doesnotexist"
    /\ last.step.gzip_header
    /\ last.env.conn = "ok"
    /\ last.env.status = 404
    /\ RecordedPass

NotFoundCommand == "./client -p 80 http://pan.vmars.tuwien.ac.at/osue/does-not-exist"

\* the part of C7 about exit codes: the harness expects 0, 1 or 3, and 3 for
\* the URL answered with 404, which passes exactly when the client exits
\* with 3 within the timeout
ExitCodeTaxonomy ==
    /\ (suite = "clienttest" /\ last.op = "is_returncode") => last.step.code \in {0, 1, 3}
    /\ (last.op = "is_returncode" /\ last.step.command = NotFoundCommand) =>
        /\ last.step.code = 3
        /\ RecordedPass <=> (InTime /\ last.env.code = 3)

UsageErrorCommands ==
    {"./client -p http://pan.vmars.tuwien.ac.at/osue/",
     "./client -o http://pan.vmars.tuwien.ac.at/osue/",
     "./client -d http://pan.vmars.tuwien.ac.at/osue/",
     "./client -p 80 -d __tmp -o __tmp/index.html http://pan.vmars.tuwien.ac.at/osue/",
     "./client -p 80 -d __tmp -d __tmp/ http://pan.vmars.tuwien.ac.at/osue/",
     "./client -p 80 -o __tmp/index.html -o __tmp/index.html http://pan.vmars.tuwien.ac.at/osue/"}

\* C8, as claimed: a usage error is accepted only if the client exits with 1
\* within the timeout and has written no output file.
C8_UsageErrorWritesNoFile ==
    (last.op = "is_returncode" /\ last.step.command \in UsageErrorCommands /\ RecordedPass) =>
        (InTime /\ last.env.code = 1 /\ last.env.wrote = NoFile)

\* C8, amended: a usage error is accepted exactly when the client exits with
\* 1 within the timeout; whether it wrote a file is not looked at.
C8_UsageErrorExitsOne ==
    /\ suite = "clienttest" =>
        \A c \in UsageErrorCommands : \E i \in Ops("is_returncode") :
            clienttest_main[i].command = c /\ clienttest_main[i].code = 1
    /\ (last.op = "is_returncode" /\ last.step.command \in UsageErrorCommands) =>
        (RecordedPass <=> (InTime /\ last.env.code = 1))

\* C8 witness: -d together with -o, exit code 1, a file written, accepted.
C8_Witness ==
    /\ last.op = "is_returncode"
    /\ last.step.command =
         "./client -p 80 -d __tmp -o __tmp/index.html http://pan.vmars.tuwien.ac.at/osue/"
    /\ last.env.wrote = "__tmp/index.html"
    /\ "__tmp/index.html" \in DOMAIN tmp
    /\ RecordedPass

Markers(log) == {log[i] : i \in 1 .. Len(log)}

C10_HalfSecond ==
    /\ last.op = "does_timeout" =>
        (RecordedPass <=> (last.env.exit = Never \/ last.env.exit >= documented_timeout))
    /\ (last.op = "is_returncode"
            /\ (last.env.exit = Never \/ last.env.exit >= documented_timeout)) => RecordedFail

\* the three requests whose response is inspected for "Connection: close"
ConnectionChecks ==
    {[url |-> "http://localhost:1337/", method |-> "GET"],
     [url |-> "http://localhost:1337/doesnotexist", method |-> "GET"],
     [url |-> "http://localhost:1337/", method |-> "POST"]}

\* C11: the responses to GET /, to GET of a missing path and to POST / are
\* each inspected for the header Connection with the value close, and
\* in_response_header records a pass exactly when the answer, successful or
\* an error, carries the header with exactly that value, a failure otherwise.
C11_ConnectionClose ==
    /\ suite = "servertest" =>
        \A c \in ConnectionChecks : \E i \in Ops("in_response_header") :
            /\ servertest_main[i].url = c.url
            /\ servertest_main[i].method = c.method
            /\ servertest_main[i].name = "Connection"
            /\ servertest_main[i].value = "close"
    /\ (last.op = "in_response_header" /\ last.step.name = "Connection" /\ Answered) =>
        /\ last.step.value = "close"
        /\ [url |-> last.step.url, method |-> last.step.method] \in ConnectionChecks
        /\ RecordedPass <=> last.env.hval = "close"
        /\ last.env.hval # "close" => RecordedFail

\* C11 witness: POST / answered 501 with "Connection: close"; the header is
\* read from the HTTPError and the check passes.
C11_Witness ==
    /\ last.op = "in_response_header"
    /\ last.step.name = "Connection"
    /\ last.step.method = "POST"
    /\ last.env.conn = "ok"
    /\ last.env.status = 501
    /\ urlopen(last.env) = "HTTPError"
    /\ last.env.hval = "close"
    /\ RecordedPass

\* the server compressed the body it sent
AppliesGzip == last.env.sent # <<>> /\ ~decompress(last.env.sent).error

\* C12: to the request without Accept-Encoding: gzip, an answer with
\* Content-Encoding: gzip is recorded as a failure, an answer without the
\* header or with another value as a pass, and a server that compressed the
\* body is never recorded as a pass.
C12_UndeclaredGzipRejected ==
    (last.op = "notin_response_header" /\ Answered) =>
        /\ last.step.name = "Content-Encoding" /\ last.step.value = "gzip"
        /\ ~last.step.gzip_header
        /\ last.env.hval = "gzip" => RecordedFail
        /\ last.env.hval # "gzip" => RecordedPass
        /\ AppliesGzip => ~RecordedPass

\* the body the reference fetch of compare_output returns, when it returns one
ReferenceReturns ==
    /\ urlopen(last.env) = "response"
    /\ ~read(last.env, "GET").incomplete
OutputMatches ==
    /\ InTime
    /\ last.env.code = 0
    /\ last.step.path \in DOMAIN tmp
    /\ ReferenceReturns
    /\ tmp[last.step.path] = read(last.env, "GET").body

\* C13: compare_output records a pass exactly when the client exits with 0
\* within the timeout, the output file exists and its bytes equal the body of
\* the reference fetch; in every other case it records a failure and returns
\* False.
C13_OutputEqualsReference ==
    last.op = "compare_output" =>
        /\ RecordedPass <=> OutputMatches
        /\ ~OutputMatches => (RecordedFail /\ last.ret = "False")

\* C14: when the server sends fewer body bytes than its Content-Length
\* declares, verify_content_length does not end with an exception: it
\* records a failure and returns False.
C14_ShortBodyFails ==
    (last.op = "verify_content_length" /\ urlopen(last.env) = "response"
        /\ read(last.env, "GET").incomplete) =>
        /\ last.outcome = "returned"
        /\ RecordedFail
        /\ last.ret = "False"

\* the creates_file checks of the -d option: the directory joined with the
\* last segment of the URL path, index.html for the root
DirectoryChecks ==
    {[command |-> "./client -p 80 -d __tmp http://pan.vmars.tuwien.ac.at/osue/",
      path |-> "__tmp/index.html"],
     [command |-> "./client -p 80 -d __tmp/ http://pan.vmars.tuwien.ac.at/osue/",
      path |-> "__tmp/index.html"],
     [command |-> "./client -p 80 -d __tmp/ http://pan.vmars.tuwien.ac.at/osue/countdown.js",
      path |-> "__tmp/countdown.js"],
     [command |-> "./client -p 80 -d __tmp/ http://pan.vmars.tuwien.ac.at/osue/cat.png",
      path |-> "__tmp/cat.png"]}

\* C15: creates_file records a pass exactly when the command exits with 0
\* within the timeout and the expected path exists afterwards; the paths
\* expected for -d are the directory joined with the last URL segment; and a
\* pass of creates_file or compare_output always rests on a file written by
\* the command of that very check, never on one an earlier check left.
C15_OnlyFreshFilesPass ==
    /\ suite = "clienttest" =>
        \A d \in DirectoryChecks : \E i \in Ops("creates_file") :
            clienttest_main[i].command = d.command /\ clienttest_main[i].path = d.path
    /\ last.op = "creates_file" =>
        /\ RecordedPass <=> (InTime /\ last.env.code = 0 /\ last.step.path \in DOMAIN tmp)
        /\ ~RecordedPass => (RecordedFail /\ last.ret = "False")
    /\ (last.op \in {"creates_file", "compare_output"} /\ RecordedPass) =>
        last.env.wrote = last.step.path

\* C15 witness: an earlier check left __tmp/index.html, the command of
\* creates_file exits with 0 in time without writing it, and the check fails.
C15_Witness ==
    /\ last.op = "creates_file"
    /\ last.existed
    /\ last.env.wrote = NoFile
    /\ last.env.code = 0
    /\ InTime
    /\ last.step.path \notin DOMAIN tmp
    /\ RecordedFail

\* C16: a server that sets Date to the current GMT time when it builds the
\* response, in the harness's format, passes the Date check whether or not
\* the clock's second ticks between the harness's timestamp and the response.
C16_DatePassesAcrossTicks ==
    (last.op = "in_response_header" /\ last.step.name = "Date" /\ Answered
        /\ last.env.hval = date_text(last.env.tick)) => RecordedPass

\* the methods of HttpTest that record one result for each call
CheckMethods ==
    {"is_returncode", "does_timeout", "does_leak", "creates_file", "compare_output",
     "in_response_header", "notin_response_header", "verify_content_length",
     "compare_response_body", "is_statuscode", "does_print"}

\* C17: 0 <= _tests_failed <= _tests always; every call of a check method
\* adds exactly 1 to _tests whatever the program under test does, adds 1 to
\* _tests_failed exactly when it returns False and nothing exactly when it
\* returns True; stop_server adds exactly 2 to _tests.
C17_CountersStep ==
    /\ [](0 <= _tests_failed /\ _tests_failed <= _tests)
    /\ [][/\ last'.op \in CheckMethods =>
               /\ _tests' = _tests + 1
               /\ _tests_failed' = _tests_failed + 1 <=> last'.ret = "False"
               /\ _tests_failed' = _tests_failed <=> last'.ret = "True"
          /\ last'.op = "stop_server" => _tests' = _tests + 2]_vars

\* main has been left: by its end or by an exception
MainLeft == mode \in {"finished", "crashed"}

\* C18: in a run of servertest.main that has started the server, stop_server
\* has been called exactly once when main is left, at the end of the checks
\* or in the handler of a check's exception, which is raised again after the
\* stop; print_result runs only if no check raised; and between start_server
\* and stop_server no operation deletes or rewrites __tmp/valgrind-out.txt, so
\* stop_server finds the log of that server.
C18_StopServerOnce ==
    /\ [](suite = "servertest" =>
            /\ stops <= 1
            /\ (process # "none" /\ MainLeft) => stops = 1
            /\ mode = "except" => (process = "running" /\ stops = 0)
            /\ (last.op = "stop_server" /\ last.handler /\ last.outcome = "returned") =>
                    mode = "crashed"
            /\ last.op = "stop_server" => last.exc # "FileNotFoundError"
            /\ last.op = "print_result" => (stops = 1 /\ ~last.handler))
    /\ [][/\ last'.outcome = "raised" => mode' \in {"except", "crashed"}
          /\ mode # "running" => (mode' # "running" /\ last'.op # "print_result")
          /\ (suite = "servertest" /\ process = "running" /\ stops = 0
                 /\ last'.op # "stop_server") =>
                /\ ValgrindLog \in DOMAIN tmp /\ ValgrindLog \in DOMAIN tmp'
                /\ tmp'[ValgrindLog] = tmp[ValgrindLog]]_vars

\* C18 witness: a check raised, the handler stopped the server and the
\* exception left main.
C18_Witness ==
    /\ suite = "servertest"
    /\ last.op = "stop_server"
    /\ last.handler
    /\ last.outcome = "returned"
    /\ mode = "crashed"
    /\ process = "exited"
    /\ stops = 1

\* the checks that make a request to the server
RequestChecks ==
    {"in_response_header", "notin_response_header", "verify_content_length",
     "compare_response_body", "is_statuscode"}

\* C19: no step of servertest.main waits on the server without bound:
\* stop_server returns when the server has not exited half a second after
\* the signal, and each request check and send_bad_request comes back when
\* the server accepts the connection and never answers.
C19_NoUnboundedWait ==
    suite = "servertest" =>
        /\ mode # "hung"
        /\ (last.op = "stop_server" /\ TimeoutExpired(last.env, terminate_wait)) =>
                last.outcome = "returned"
        /\ (last.op \in RequestChecks \cup {"send_bad_request"}
                /\ last.env.conn = "silent") => last.outcome # "hung"

====
